---------------------------- MODULE Spec2Model ----------------------------
(***************************************************************************)
(* Model of utc_time (src/src/main.rs): a command line tool that parses a  *)
(* time, optionally with a date, and converts it between Brisbane civil    *)
(* time and UTC.  Strings are TLA+ strings, read one character at a time   *)
(* with SubSeq; the chrono parsing and formatting routines the program     *)
(* calls are modelled by what they do on those strings.                    *)
(***************************************************************************)
EXTENDS Integers, Sequences, FiniteSets, TLC

VARIABLES
    pc,       \* position of main: "start", "parse", "menu", "read", "convert", "done"
    args,     \* env::args().skip(1): a sequence of strings
    input,    \* the joined argument string handed to parse_input
    now,      \* the value Utc::now() returned inside parse_input
    ndt,      \* the parsed NaiveDateTime
    choice,   \* the trimmed line read from stdin
    out,      \* lines written to stdout, in order
    err,      \* lines written to stderr, in order
    status,   \* process exit status, -1 while running
    tried,    \* how many of the date+time formats parse_input attempted
    utc,      \* main's local utc: the UTC wall-clock value of the conversion
    bne,      \* main's local local_dt / bne: the Brisbane value and its offset
    back,     \* the Brisbane value a second run prints for the UTC value of a first
    arg_y,    \* argument of a direct call of map_two_digit_year
    ret_y,    \* its return value, <<>> before the call
    arg_dt,   \* argument of a direct call of fix_two_digit_year
    ret_dt    \* its return value, <<>> before the call

vars == <<pc, args, input, now, ndt, choice, out, err, status, tried, utc, bne,
          back, arg_y, ret_y, arg_dt, ret_dt>>

-----------------------------------------------------------------------------
(* Characters and numbers                                                  *)

Digits == "0123456789"

CharAt(s, i) == SubSeq(s, i, i)

Drop(s, n) == SubSeq(s, n + 1, Len(s))

IsDigit(c) == \E i \in 1..10 : CharAt(Digits, i) = c

DigitVal(c) == CHOOSE i \in 0..9 : CharAt(Digits, i + 1) = c

\* char::is_whitespace, over the model's alphabet
Whitespace == {" ", "\n"}

\* str::trim_start
RECURSIVE trim_start(_)
trim_start(s) ==
    IF Len(s) > 0 /\ CharAt(s, 1) \in Whitespace THEN trim_start(Drop(s, 1)) ELSE s

\* str::trim_end
RECURSIVE trim_end(_)
trim_end(s) ==
    IF Len(s) > 0 /\ CharAt(s, Len(s)) \in Whitespace
    THEN trim_end(SubSeq(s, 1, Len(s) - 1)) ELSE s

\* str::trim
trim(s) == trim_start(trim_end(s))

\* number of leading ASCII digits of s, at most max
RECURSIVE DigitRun(_, _)
DigitRun(s, max) ==
    IF max = 0 \/ Len(s) = 0 \/ ~IsDigit(CharAt(s, 1)) THEN 0
    ELSE 1 + DigitRun(Drop(s, 1), max - 1)

RECURSIVE NumVal(_)
NumVal(s) ==
    IF Len(s) = 0 THEN 0
    ELSE NumVal(SubSeq(s, 1, Len(s) - 1)) * 10 + DigitVal(CharAt(s, Len(s)))

\* chrono::format::scan::number: between min and max digits
scan_number(s, min, max) ==
    LET n == DigitRun(s, max)
    IN  IF n < min THEN [ok |-> FALSE, v |-> 0, rest |-> s]
        ELSE [ok |-> TRUE, v |-> NumVal(SubSeq(s, 1, n)), rest |-> Drop(s, n)]

Fmt2(n) == CharAt(Digits, (n \div 10) + 1) \o CharAt(Digits, (n % 10) + 1)

\* {:04}: zero padded to four digits (years 0..9999)
Fmt4(n) == Fmt2(n \div 100) \o Fmt2(n % 100)

-----------------------------------------------------------------------------
(* Calendar: chrono::NaiveDate, NaiveTime, NaiveDateTime                   *)

IsLeap(y) == (y % 4 = 0 /\ y % 100 # 0) \/ y % 400 = 0

DaysInMonth(y, m) ==
    CASE m \in {1, 3, 5, 7, 8, 10, 12} -> 31
      [] m \in {4, 6, 9, 11} -> 30
      [] OTHER -> IF IsLeap(y) THEN 29 ELSE 28

\* mutant: a day past the end of the month is clamped to the last day
from_ymd_opt_clamped(y, m, d) ==
    IF m \in 1..12 /\ d >= 1 /\ d <= 31
    THEN << [year |-> y, month |-> m,
             day |-> IF d <= DaysInMonth(y, m) THEN d ELSE DaysInMonth(y, m)] >>
    ELSE << >>

\* NaiveDate::from_ymd_opt: <<>> is None, <<date>> is Some(date)
from_ymd_opt(y, m, d) ==
    IF m \in 1..12 /\ d >= 1 /\ d <= DaysInMonth(y, m)
    THEN << [year |-> y, month |-> m, day |-> d] >>
    ELSE << >>

\* NaiveDateTime::new
NaiveDateTime_new(date, t) ==
    [year |-> date.year, month |-> date.month, day |-> date.day,
     hour |-> t.hour, minute |-> t.minute, second |-> t.second]

date_naive(dt) == [year |-> dt.year, month |-> dt.month, day |-> dt.day]

time_of(dt) == [hour |-> dt.hour, minute |-> dt.minute, second |-> dt.second]

NoDt == [year |-> 0, month |-> 0, day |-> 0, hour |-> 0, minute |-> 0, second |-> 0]

succ_day(d) ==
    IF d.day < DaysInMonth(d.year, d.month) THEN [d EXCEPT !.day = d.day + 1]
    ELSE IF d.month < 12 THEN [d EXCEPT !.month = d.month + 1, !.day = 1]
    ELSE [year |-> d.year + 1, month |-> 1, day |-> 1]

pred_day(d) ==
    IF d.day > 1 THEN [d EXCEPT !.day = d.day - 1]
    ELSE IF d.month > 1
         THEN [d EXCEPT !.month = d.month - 1,
                        !.day = DaysInMonth(d.year, d.month - 1)]
    ELSE [year |-> d.year - 1, month |-> 12, day |-> 31]

SecOfDay(dt) == dt.hour * 3600 + dt.minute * 60 + dt.second

TimeOfSecs(s) ==
    [hour |-> s \div 3600, minute |-> (s % 3600) \div 60, second |-> s % 60]

\* NaiveDateTime + seconds, for a shift of less than one day either way
AddSeconds(dt, delta) ==
    LET s == SecOfDay(dt) + delta
    IN  IF s < 0 THEN NaiveDateTime_new(pred_day(date_naive(dt)), TimeOfSecs(s + 86400))
        ELSE IF s >= 86400
             THEN NaiveDateTime_new(succ_day(date_naive(dt)), TimeOfSecs(s - 86400))
        ELSE NaiveDateTime_new(date_naive(dt), TimeOfSecs(s))

\* the order of NaiveDateTime values
DtLess(a, b) ==
    LET ka == <<a.year, a.month, a.day, SecOfDay(a)>>
        kb == <<b.year, b.month, b.day, SecOfDay(b)>>
    IN  \E i \in 1..4 : ka[i] < kb[i] /\ \A j \in 1..(i - 1) : ka[j] = kb[j]

-----------------------------------------------------------------------------
(* chrono::format: parsing a string against a list of format items         *)

Lit(c) == [t |-> "Literal", x |-> c]

Space == [t |-> "Space", x |-> " "]

Num(f) == [t |-> "Numeric", x |-> f]

\* StrftimeItems of "%H:%M"
TimeItems == << Num("Hour"), Lit(":"), Num("Minute") >>

\* StrftimeItems of "%H:%M %d<sep>%m<sep><year>", year being %Y or %y
DateTimeItems(sep, year) ==
    TimeItems \o << Space, Num("Day"), Lit(sep), Num("Month"), Lit(sep), Num(year) >>

\* mutant: the two-digit-year formats listed before the four-digit ones
formats_y_first ==
    << DateTimeItems("-", "YearMod100"), DateTimeItems("-", "Year"),
       DateTimeItems("/", "YearMod100"), DateTimeItems("/", "Year") >>

\* the formats array of parse_input, in the order it is tried
formats ==
    << DateTimeItems("-", "Year"),         \* "%H:%M %d-%m-%Y"
       DateTimeItems("-", "YearMod100"),   \* "%H:%M %d-%m-%y"
       DateTimeItems("/", "Year"),         \* "%H:%M %d/%m/%Y"
       DateTimeItems("/", "YearMod100") >> \* "%H:%M %d/%m/%y"

\* chrono::format::Parsed: every field an Option, <<>> being None
NoParsed ==
    [Hour |-> << >>, Minute |-> << >>, Day |-> << >>, Month |-> << >>,
     Year |-> << >>, YearMod100 |-> << >>]

\* the widest run of digits a numeric item takes when no sign is written
Width(f) == IF f = "Year" THEN 4 ELSE 2

\* the range check of Parsed::set_<field>
InRange(f, v) ==
    CASE f = "Hour" -> v \in 0..23
      [] f = "Minute" -> v \in 0..59
      [] f = "Day" -> v \in 1..31
      [] f = "Month" -> v \in 1..12
      [] f = "YearMod100" -> v \in 0..99
      [] OTHER -> TRUE

\* the number a numeric item reads: leading whitespace is skipped; only the
\* year may carry a sign, and a signed year takes every digit that follows
scan_numeric(f, s0) ==
    LET s == trim_start(s0)
    IN  IF f = "Year" /\ Len(s) > 0 /\ CharAt(s, 1) = "-"
        THEN LET n == scan_number(Drop(s, 1), 1, Len(s))
             IN  [n EXCEPT !.v = 0 - n.v]
        ELSE IF f = "Year" /\ Len(s) > 0 /\ CharAt(s, 1) = "+"
        THEN scan_number(Drop(s, 1), 1, Len(s))
        ELSE scan_number(s, 1, Width(f))

ParseFail == [ok |-> FALSE, p |-> NoParsed]

\* chrono::format::parse: every item in turn, and nothing may be left over
RECURSIVE parse_internal(_, _, _)
parse_internal(p, s, items) ==
    IF Len(items) = 0
    THEN IF Len(s) = 0 THEN [ok |-> TRUE, p |-> p] ELSE ParseFail
    ELSE LET it == Head(items)
         IN  CASE it.t = "Literal" ->
                    IF Len(s) >= Len(it.x) /\ SubSeq(s, 1, Len(it.x)) = it.x
                    THEN parse_internal(p, Drop(s, Len(it.x)), Tail(items))
                    ELSE ParseFail
               [] it.t = "Space" -> parse_internal(p, trim_start(s), Tail(items))
               [] OTHER ->
                    LET n == scan_numeric(it.x, s)
                    IN  IF n.ok /\ InRange(it.x, n.v)
                        THEN parse_internal([p EXCEPT ![it.x] = << n.v >>],
                                            n.rest, Tail(items))
                        ELSE ParseFail

\* Parsed::to_naive_time: hour and minute are needed, the second defaults to 0
to_naive_time(p) ==
    IF p.Hour # << >> /\ p.Minute # << >>
    THEN << [hour |-> p.Hour[1], minute |-> p.Minute[1], second |-> 0] >>
    ELSE << >>

\* Parsed::to_naive_date: a full year stands as written; a year given only
\* modulo 100 is read as 20xx below 70 and as 19xx from 70 on
to_naive_date(p) ==
    LET year == IF p.Year # << >> THEN p.Year
                ELSE IF p.YearMod100 # << >>
                THEN << p.YearMod100[1]
                        + (IF p.YearMod100[1] < 70 THEN 2000 ELSE 1900) >>
                ELSE << >>
    IN  IF year # << >> /\ p.Month # << >> /\ p.Day # << >>
        THEN from_ymd_opt(year[1], p.Month[1], p.Day[1])
        ELSE << >>

\* NaiveTime::parse_from_str(s, "%H:%M")
NaiveTime_parse_from_str(s) ==
    LET r == parse_internal(NoParsed, s, TimeItems)
    IN  IF r.ok THEN to_naive_time(r.p) ELSE << >>

\* NaiveDateTime::parse_from_str(s, fmt)
NaiveDateTime_parse_from_str(s, items) ==
    LET r == parse_internal(NoParsed, s, items)
    IN  IF r.ok /\ to_naive_date(r.p) # << >> /\ to_naive_time(r.p) # << >>
        THEN << NaiveDateTime_new(to_naive_date(r.p)[1], to_naive_time(r.p)[1]) >>
        ELSE << >>


-----------------------------------------------------------------------------
(* chrono_tz::Australia::Brisbane and chrono::Utc                          *)

Dt(y, mo, d, h, mi, s) ==
    [year |-> y, month |-> mo, day |-> d, hour |-> h, minute |-> mi, second |-> s]

\* local mean time, UTC+10:12:08, until 1895-01-01 00:00 local
LMT == [utc_offset |-> 36728, dst_offset |-> 0, abbreviation |-> "LMT"]

\* standard time, UTC+10
AEST == [utc_offset |-> 36000, dst_offset |-> 0, abbreviation |-> "AEST"]

\* daylight time, UTC+11
AEDT == [utc_offset |-> 36000, dst_offset |-> 3600, abbreviation |-> "AEDT"]

BrisbaneOffsets == {LMT, AEST, AEDT}

\* the UTC instant at which local mean time ended
LmtUntil == Dt(1894, 12, 31, 13, 47, 52)

\* the periods of daylight time Queensland observed, each from 02:00 standard
\* time on its first day to 02:00 standard time on its last, as UTC instants
DstPeriods ==
    { << Dt(1916, 12, 31, 16, 0, 0), Dt(1917, 3, 24, 16, 0, 0) >>,
      << Dt(1941, 12, 31, 16, 0, 0), Dt(1942, 3, 28, 16, 0, 0) >>,
      << Dt(1942, 9, 26, 16, 0, 0), Dt(1943, 3, 27, 16, 0, 0) >>,
      << Dt(1943, 10, 2, 16, 0, 0), Dt(1944, 3, 25, 16, 0, 0) >>,
      << Dt(1971, 10, 30, 16, 0, 0), Dt(1972, 2, 26, 16, 0, 0) >>,
      << Dt(1989, 10, 28, 16, 0, 0), Dt(1990, 3, 3, 16, 0, 0) >>,
      << Dt(1990, 10, 27, 16, 0, 0), Dt(1991, 3, 2, 16, 0, 0) >>,
      << Dt(1991, 10, 26, 16, 0, 0), Dt(1992, 2, 29, 16, 0, 0) >> }

TotalOffset(o) == o.utc_offset + o.dst_offset

\* TimeZone::offset_from_utc_datetime for Brisbane
offset_from_utc_datetime(u) ==
    IF DtLess(u, LmtUntil) THEN LMT
    ELSE IF \E p \in DstPeriods : ~DtLess(u, p[1]) /\ DtLess(u, p[2]) THEN AEDT
    ELSE AEST

\* TimeZone::from_local_datetime for Brisbane: the offsets under which the
\* wall-clock value is the local time of some UTC instant
LocalCandidates(local) ==
    { o \in BrisbaneOffsets :
        offset_from_utc_datetime(AddSeconds(local, 0 - TotalOffset(o))) = o }

\* mutant: an ambiguous local time resolved to its earlier instant
from_local_datetime_earliest(local) ==
    LET c == LocalCandidates(local)
    IN  IF c = {} THEN [kind |-> "None", offset |-> AEST]
        ELSE [kind |-> "Single",
              offset |-> CHOOSE o \in c : \A q \in c : TotalOffset(q) <= TotalOffset(o)]

from_local_datetime(local) ==
    LET c == LocalCandidates(local)
    IN  IF c = {} THEN [kind |-> "None", offset |-> AEST]
        ELSE IF Cardinality(c) = 1
        THEN [kind |-> "Single", offset |-> CHOOSE o \in c : TRUE]
        ELSE [kind |-> "Ambiguous", offset |-> AEST]

\* mutant: the offset added where it is to be taken off
local_to_utc_added(local, o) == AddSeconds(local, TotalOffset(o))

\* DateTime<Brisbane>::with_timezone(&Utc): the UTC wall-clock value
local_to_utc(local, o) == AddSeconds(local, 0 - TotalOffset(o))

\* mutant: a fixed offset of ten hours, whatever the date
utc_to_local_fixed10(u) == [naive |-> AddSeconds(u, 36000), offset |-> AEST]

\* DateTime<Utc>::with_timezone(&Brisbane): the local value and its offset
utc_to_local(u) ==
    LET o == offset_from_utc_datetime(u)
    IN  [naive |-> AddSeconds(u, TotalOffset(o)), offset |-> o]

\* DateTime<Utc>::to_rfc3339
to_rfc3339(u) ==
    Fmt4(u.year) \o "-" \o Fmt2(u.month) \o "-" \o Fmt2(u.day) \o "T"
    \o Fmt2(u.hour) \o ":" \o Fmt2(u.minute) \o ":" \o Fmt2(u.second)
    \o "+00:00"

\* DateTime<Brisbane>::format("%Y-%m-%d %H:%M %Z")
format_local(local, o) ==
    Fmt4(local.year) \o "-" \o Fmt2(local.month) \o "-" \o Fmt2(local.day) \o " "
    \o Fmt2(local.hour) \o ":" \o Fmt2(local.minute) \o " " \o o.abbreviation

-----------------------------------------------------------------------------
(* The functions of main.rs                                                *)

\* mutant: the pivot of chrono's %y (70) in place of 69
map_two_digit_year_pivot70(y) ==
    IF y \in 0..69 THEN 2000 + y
    ELSE IF y \in 70..99 THEN 1900 + y
    ELSE y

\* mutant: every two-digit year read as 19xx
map_two_digit_year_1900(y) ==
    IF y \in 0..99 THEN 1900 + y ELSE y

map_two_digit_year(y) ==
    IF y \in 0..68 THEN 2000 + y
    ELSE IF y \in 69..99 THEN 1900 + y
    ELSE y

\* panic is TRUE when the expect on from_ymd_opt fails
fix_two_digit_year(dt) ==
    LET y == dt.year
    IN  IF y \in 0..99
        THEN LET ny == map_two_digit_year(y)
                 date == from_ymd_opt(ny, dt.month, dt.day)
             IN  IF date = << >> THEN [panic |-> TRUE, v |-> NoDt]
                 ELSE [panic |-> FALSE, v |-> NaiveDateTime_new(date[1], time_of(dt))]
        ELSE [panic |-> FALSE, v |-> dt]

\* the for loop of parse_input over a list of formats: the first that parses
\* decides; tried counts the formats attempted
RECURSIVE try_formats(_, _, _)
try_formats(fs, s, n) ==
    IF Len(fs) = 0
    THEN [tag |-> "Err", v |-> NoDt, tried |-> n]
    ELSE LET r == NaiveDateTime_parse_from_str(s, Head(fs))
         IN  IF r # << >>
             THEN LET f == fix_two_digit_year(r[1])
                  IN  [tag |-> IF f.panic THEN "Panic" ELSE "Ok", v |-> f.v,
                       tried |-> n + 1]
             ELSE try_formats(Tail(fs), s, n + 1)

\* mutant: the date of the UTC instant itself
today_utc(utc_now) == date_naive(utc_now)

\* today_bne: Utc::now().with_timezone(&Brisbane).date_naive()
today_bne(utc_now) == date_naive(utc_to_local(utc_now).naive)

parse_input(s, utc_now) ==
    LET t == NaiveTime_parse_from_str(s)
    IN  IF t # << >>
        THEN [tag |-> "Ok", v |-> NaiveDateTime_new(today_bne(utc_now), t[1]),
              tried |-> 0]
        ELSE try_formats(formats, s, 0)


-----------------------------------------------------------------------------
(* Inputs of a run                                                         *)

TimeTexts == {"21:00", "00:30", "02:30"}

DayTexts == {"01", "04", "29", "31"}

MonthTexts == {"01", "02", "03", "04", "10"}

YearTexts == {"2025", "2024", "1990", "1989", "25", "68", "69", "70", "00",
              "5", "025", "125", "+2025"}

DateTexts ==
    { d \o sep \o m \o sep \o y :
        d \in DayTexts, m \in MonthTexts, y \in YearTexts, sep \in {"-", "/"} }

\* what the command line can hold: nothing, one argument, two, or three
ArgLists ==
    { << >>, <<"not-a-time">>, <<"21:00 22-09-2025">>, <<"21:00 22-09-25">>,
      <<"14:30">>, <<"23:59">>, <<"24:00">>, <<"12:60">>, <<"9:05">>,
      <<"9:05", "1-9-2025">>, <<"21:00", "22-09/2025">>, <<"21:00", "22/09-25">>,
      <<"21:00", "01-13-2025">>, <<"21:00", "00-01-2025">>, <<"24:00", "01-01-2025">>,
      <<"23:59", "31/12/99">>, <<"21:00", "22-09-2025 ">>, <<"21:00", "22.09.2025">>,
      <<"21:00", "22-09-2025", "extra">> }
    \cup { <<t>> : t \in TimeTexts }
    \cup { <<t, d>> : t \in TimeTexts, d \in DateTexts }

\* instants the clock can read when parse_input asks for the current time
ClockReadings ==
    { Dt(2025, 9, 22, 13, 59, 30), Dt(2025, 9, 22, 14, 0, 0),
      Dt(2025, 12, 31, 20, 15, 0), Dt(2024, 2, 28, 14, 0, 5) }

\* what read_line can return: a line (with its newline), end of input (the
\* empty string), or an error
ReadOutcomes ==
    { [ok |-> TRUE, line |-> l] : l \in {"1\n", "2\n", " 1 \n", "2", "3\n", "12\n", ""} }
    \cup { [ok |-> FALSE, line |-> ""] }

NoLocal == [naive |-> NoDt, offset |-> AEST]

-----------------------------------------------------------------------------
(* main                                                                    *)

UsageLines == << "Usage: utc_time HH:MM", "Usage: utc_time HH:MM dd-mm-yy|YYYY" >>

TooManyLine == "Too many arguments; pass either one quoted string or two separate args"

ParseErrLine ==
    "Parse error: Unrecognized format. Try: HH:MM or HH:MM dd-mm-yy|yyyy or HH:MM dd/mm/yy|yyyy"

MenuLines ==
    << "Select conversion:", "  1) AEST (Brisbane) -> UTC",
       "  2) UTC -> AEST (Brisbane)", "Choice [1/2]: " >>

NonExistentLine == "Non-existent local time in Brisbane (unexpected without DST)"

AmbiguousLine == "Ambiguous local time in Brisbane (rare; no DST in Brisbane)"

InvalidChoiceLine == "Invalid choice, expected '1' or '2'"

UtcLine(u) == "UTC: " \o to_rfc3339(u)

BrisbaneLine(l) == "Brisbane: " \o format_local(l.naive, l.offset)

\* process::exit(code) after writing lines to stderr
Exit(code, lines) ==
    /\ err' = err \o lines
    /\ status' = code
    /\ pc' = "done"

\* a panic: the message goes to stderr and the process ends with status 101
Panic(msg) == Exit(101, << "panicked: " \o msg >>)

\* main, lines 56-59: no argument at all
usage ==
    /\ pc = "start"
    /\ Len(args) = 0
    /\ Exit(1, UsageLines)
    /\ UNCHANGED <<args, input, now, ndt, choice, out, tried, utc, bne, back,
                   arg_y, ret_y, arg_dt, ret_dt>>

\* mutant: more than two arguments treated as the usage error
JoinArgs_exit1 ==
    /\ pc = "start"
    /\ Len(args) > 0
    /\ IF Len(args) = 1
       THEN input' = args[1] /\ pc' = "parse" /\ UNCHANGED <<err, status>>
       ELSE IF Len(args) = 2
       THEN input' = args[1] \o " " \o args[2] /\ pc' = "parse"
            /\ UNCHANGED <<err, status>>
       ELSE Exit(1, UsageLines) /\ UNCHANGED input
    /\ UNCHANGED <<args, now, ndt, choice, out, tried, utc, bne, back,
                   arg_y, ret_y, arg_dt, ret_dt>>

\* main, lines 60-67: one argument as it is, two joined by a blank, more refused
JoinArgs ==
    /\ pc = "start"
    /\ Len(args) > 0
    /\ IF Len(args) = 1
       THEN input' = args[1] /\ pc' = "parse" /\ UNCHANGED <<err, status>>
       ELSE IF Len(args) = 2
       THEN input' = args[1] \o " " \o args[2] /\ pc' = "parse"
            /\ UNCHANGED <<err, status>>
       ELSE Exit(2, << TooManyLine >>) /\ UNCHANGED input
    /\ UNCHANGED <<args, now, ndt, choice, out, tried, utc, bne, back,
                   arg_y, ret_y, arg_dt, ret_dt>>

\* main, lines 69-75: parse_input; the clock is read on the time-only path alone
Parse ==
    /\ pc = "parse"
    /\ \E n \in (IF NaiveTime_parse_from_str(input) # << >>
                 THEN ClockReadings ELSE {NoDt}) :
          LET r == parse_input(input, n)
          IN  /\ now' = n
              /\ tried' = r.tried
              /\ IF r.tag = "Ok"
                 THEN ndt' = r.v /\ pc' = "menu" /\ UNCHANGED <<err, status>>
                 ELSE IF r.tag = "Err"
                 THEN Exit(3, << ParseErrLine >>) /\ UNCHANGED ndt
                 ELSE Panic("mapped year should be valid") /\ UNCHANGED ndt
    /\ UNCHANGED <<args, input, choice, out, utc, bne, back,
                   arg_y, ret_y, arg_dt, ret_dt>>

\* main, lines 77-81: the menu and the prompt
Prompt ==
    /\ pc = "menu"
    /\ out' = out \o MenuLines
    /\ pc' = "read"
    /\ UNCHANGED <<args, input, now, ndt, choice, err, status, tried, utc, bne,
                   back, arg_y, ret_y, arg_dt, ret_dt>>

\* main, lines 83-85: one line from stdin, trimmed
ReadChoice ==
    /\ pc = "read"
    /\ \E r \in ReadOutcomes :
          IF r.ok
          THEN choice' = trim(r.line) /\ pc' = "convert" /\ UNCHANGED <<err, status>>
          ELSE Panic("read choice") /\ UNCHANGED choice
    /\ UNCHANGED <<args, input, now, ndt, out, tried, utc, bne, back,
                   arg_y, ret_y, arg_dt, ret_dt>>

\* main, lines 88-105: the value is Brisbane wall-clock time
LocalToUtc ==
    /\ pc = "convert"
    /\ choice = "1"
    /\ LET r == from_local_datetime(ndt)
       IN  IF r.kind = "Single"
           THEN LET local_dt == [naive |-> ndt, offset |-> r.offset]
                    u == local_to_utc(ndt, r.offset)
                IN  /\ utc' = u
                    /\ bne' = local_dt
                    /\ out' = out \o << UtcLine(u), BrisbaneLine(local_dt) >>
                    /\ status' = 0
                    /\ pc' = "done"
                    /\ UNCHANGED err
           ELSE IF r.kind = "None"
           THEN Exit(4, << NonExistentLine >>) /\ UNCHANGED <<utc, bne, out>>
           ELSE Exit(5, << AmbiguousLine >>) /\ UNCHANGED <<utc, bne, out>>
    /\ UNCHANGED <<args, input, now, ndt, choice, tried, back,
                   arg_y, ret_y, arg_dt, ret_dt>>

\* mutant: the UTC line written first in this direction too
UtcToLocal_utc_first ==
    /\ pc = "convert"
    /\ choice = "2"
    /\ LET b == utc_to_local(ndt)
       IN  /\ utc' = ndt
           /\ bne' = b
           /\ out' = out \o << UtcLine(ndt), BrisbaneLine(b) >>
    /\ status' = 0
    /\ pc' = "done"
    /\ UNCHANGED <<args, input, now, ndt, choice, err, tried, back,
                   arg_y, ret_y, arg_dt, ret_dt>>

\* main, lines 106-111: the value is UTC wall-clock time
UtcToLocal ==
    /\ pc = "convert"
    /\ choice = "2"
    /\ LET b == utc_to_local(ndt)
       IN  /\ utc' = ndt
           /\ bne' = b
           /\ out' = out \o << BrisbaneLine(b), UtcLine(ndt) >>
    /\ status' = 0
    /\ pc' = "done"
    /\ UNCHANGED <<args, input, now, ndt, choice, err, tried, back,
                   arg_y, ret_y, arg_dt, ret_dt>>

\* main, lines 112-115: any other answer
InvalidChoice ==
    /\ pc = "convert"
    /\ choice \notin {"1", "2"}
    /\ Exit(6, << InvalidChoiceLine >>)
    /\ UNCHANGED <<args, input, now, ndt, choice, out, tried, utc, bne, back,
                   arg_y, ret_y, arg_dt, ret_dt>>

\* a second run of the tool on the UTC value a local->UTC run printed, with
\* choice "2": lines 106-108 applied to that value
ConvertBack ==
    /\ pc = "done"
    /\ status = 0
    /\ choice = "1"
    /\ back' = utc_to_local(utc)
    /\ pc' = "back"
    /\ UNCHANGED <<args, input, now, ndt, choice, out, err, status, tried, utc,
                   bne, arg_y, ret_y, arg_dt, ret_dt>>

Init ==
    /\ pc = "start"
    /\ args \in ArgLists
    /\ input = ""
    /\ now = NoDt
    /\ ndt = NoDt
    /\ choice = ""
    /\ out = << >>
    /\ err = << >>
    /\ status = -1
    /\ tried = 0
    /\ utc = NoDt
    /\ bne = NoLocal
    /\ back = NoLocal
    /\ arg_y = 0
    /\ ret_y = << >>
    /\ arg_dt = NoDt
    /\ ret_dt = << >>

Next ==
    \/ usage
    \/ JoinArgs
    \/ Parse
    \/ Prompt
    \/ ReadChoice
    \/ LocalToUtc
    \/ UtcToLocal
    \/ InvalidChoice
    \/ ConvertBack

Spec == Init /\ [][Next]_vars


-----------------------------------------------------------------------------
(* Direct calls of the two year functions, on inputs drawn from a range    *)

\* map_two_digit_year is called on every year from -MapYearSpan to MapYearSpan
MapYearSpan == 150

\* fix_two_digit_year is called on every valid date of the years -4..MaxFixYear
MaxFixYear == 120

FixInputs ==
    { Dt(y, m, d, 21, 30, 0) :
        y \in (0 - 4)..MaxFixYear, m \in 1..12, d \in 1..31 }

\* main is not running
Idle ==
    /\ pc = "call"
    /\ args = << >>
    /\ input = ""
    /\ now = NoDt
    /\ ndt = NoDt
    /\ choice = ""
    /\ out = << >>
    /\ err = << >>
    /\ status = -1
    /\ tried = 0
    /\ utc = NoDt
    /\ bne = NoLocal
    /\ back = NoLocal

InitMap ==
    /\ Idle
    /\ arg_y \in (0 - MapYearSpan)..MapYearSpan
    /\ ret_y = << >>
    /\ arg_dt = NoDt
    /\ ret_dt = << >>

CallMap ==
    /\ pc = "call"
    /\ ret_y = << >>
    /\ ret_y' = << map_two_digit_year(arg_y) >>
    /\ pc' = "returned"
    /\ UNCHANGED <<args, input, now, ndt, choice, out, err, status, tried, utc,
                   bne, back, arg_y, arg_dt, ret_dt>>

SpecMap == InitMap /\ [][CallMap]_vars

InitFix ==
    /\ Idle
    /\ arg_y = 0
    /\ ret_y = << >>
    /\ arg_dt \in { dt \in FixInputs : from_ymd_opt(dt.year, dt.month, dt.day) # << >> }
    /\ ret_dt = << >>

CallFix ==
    /\ pc = "call"
    /\ ret_dt = << >>
    /\ ret_dt' = << fix_two_digit_year(arg_dt) >>
    /\ pc' = "returned"
    /\ UNCHANGED <<args, input, now, ndt, choice, out, err, status, tried, utc,
                   bne, back, arg_y, ret_y, arg_dt>>

SpecFix == InitFix /\ [][CallFix]_vars


-----------------------------------------------------------------------------
(* Properties                                                              *)

\* the run has ended: a status is set and nothing more is written
Ended == pc \in {"done", "back"}

\* the parse step has been taken
AfterParse == pc \in {"menu", "read", "convert", "done", "back"} /\ Len(args) \in {1, 2}

IsUtcLine(l) == Len(l) >= 5 /\ SubSeq(l, 1, 5) = "UTC: "

IsBrisbaneLine(l) == Len(l) >= 10 /\ SubSeq(l, 1, 10) = "Brisbane: "

ResultLines == { i \in 1..Len(out) : IsUtcLine(out[i]) \/ IsBrisbaneLine(out[i]) }

\* the two-digit year rule as the specification words it
MappedYear(y) ==
    IF y >= 0 /\ y <= 68 THEN 2000 + y
    ELSE IF y >= 69 /\ y <= 99 THEN 1900 + y
    ELSE y

\* C1: map_two_digit_year returns a value for every integer: 2000+y for y in
\* 0..68, 1900+y for y in 69..99, and y itself for every other y.
C1_MapTwoDigitYear ==
    /\ (pc = "returned") => ret_y # << >>
    /\ ret_y # << >> => ret_y = << MappedYear(arg_y) >>

\* C1 witness: the call on 69 has returned 1969
C1_Witness == arg_y = 69 /\ ret_y = << 1969 >>

\* C9: fix_two_digit_year never fails on a valid date: a year in 0..99 is
\* replaced by its mapped year with month, day and time of day kept (29
\* February included), and any other year leaves the value unchanged.
C9_FixNeverFails ==
    ret_dt # << >> =>
        /\ ~ret_dt[1].panic
        /\ ret_dt[1].v = [arg_dt EXCEPT !.year = MappedYear(arg_dt.year)]
        /\ from_ymd_opt(ret_dt[1].v.year, ret_dt[1].v.month, ret_dt[1].v.day) # << >>
        /\ (arg_dt.year \notin 0..99 => ret_dt[1].v = arg_dt)

\* C9 witness: 29 February of year 96 has become 29 February 1996
C9_Witness ==
    /\ arg_dt = Dt(96, 2, 29, 21, 30, 0)
    /\ ret_dt = << [panic |-> FALSE, v |-> Dt(1996, 2, 29, 21, 30, 0)] >>


\* the offsets under which some UTC instant has the Brisbane wall-clock value l:
\* one for each UTC instant that l stands for
UtcInstants(l) ==
    { o \in BrisbaneOffsets :
        utc_to_local(AddSeconds(l, 0 - TotalOffset(o))) = [naive |-> l, offset |-> o] }

\* the status the first failing step fixes, in the order argument count,
\* parse, menu choice, zone resolution
FirstFailure ==
    IF Len(args) = 0 THEN 1
    ELSE IF Len(args) > 2 THEN 2
    ELSE IF parse_input(input, now).tag = "Err" THEN 3
    ELSE IF choice \notin {"1", "2"} THEN 6
    ELSE IF choice = "1" /\ UtcInstants(ndt) = {} THEN 4
    ELSE IF choice = "1" /\ Cardinality(UtcInstants(ndt)) > 1 THEN 5
    ELSE 0

Converted == Ended /\ choice \in {"1", "2"} /\ Len(out) >= Len(MenuLines)

\* C4: under choice "1" the two result lines are printed only when the value
\* stands for exactly one UTC instant; a non-existent local time ends the run
\* with status 4 and an ambiguous one with status 5, neither printing a
\* result line; under choice "2" the run never ends with status 4 or 5.
C4_ZoneResolution ==
    Converted =>
        /\ choice = "1" =>
             LET n == Cardinality(UtcInstants(ndt))
             IN  /\ (ResultLines # {}) <=> (n = 1)
                 /\ n = 1 => status = 0 /\ Cardinality(ResultLines) = 2
                 /\ n = 0 => status = 4 /\ utc = NoDt
                 /\ n > 1 => status = 5 /\ utc = NoDt
        /\ choice = "2" => status = 0

\* C4 witness: 02:30 on 4 March 1990, which occurred twice, ended with status 5
C4_Witness ==
    /\ pc = "done" /\ choice = "1" /\ status = 5
    /\ ndt = Dt(1990, 3, 4, 2, 30, 0) /\ out = MenuLines

\* C6: a successful run writes exactly two result lines after the menu and
\* the read of the choice: UTC then Brisbane under choice "1", Brisbane then
\* UTC under choice "2".
C6_LineOrder ==
    /\ ResultLines # {} => Ended /\ status = 0
    /\ (Ended /\ status = 0) =>
        /\ Len(out) = 6
        /\ SubSeq(out, 1, 4) = MenuLines
        /\ ResultLines = {5, 6}
        /\ choice \in {"1", "2"}
        /\ choice = "1" => IsUtcLine(out[5]) /\ IsBrisbaneLine(out[6])
        /\ choice = "2" => IsBrisbaneLine(out[5]) /\ IsUtcLine(out[6])

\* C6 witness: a UTC->local run on "21:00 22-09-2025" has printed its lines
C6_Witness ==
    /\ pc = "done" /\ choice = "2" /\ input = "21:00 22-09-2025"
    /\ out[5] = "Brisbane: 2025-09-23 07:00 AEST"
    /\ out[6] = "UTC: 2025-09-22T21:00:00+00:00"

\* a bare HH:MM, zero padded, hour 00..23 and minute 00..59
IsBareTime(s) ==
    /\ Len(s) = 5
    /\ \A i \in {1, 2, 4, 5} : IsDigit(CharAt(s, i))
    /\ CharAt(s, 3) = ":"
    /\ NumVal(SubSeq(s, 1, 2)) <= 23
    /\ NumVal(SubSeq(s, 4, 5)) <= 59

\* the date in Brisbane (UTC+10 at present) of a UTC instant
BrisbaneDateOf(n) == IF n.hour >= 14 THEN succ_day(date_naive(n)) ELSE date_naive(n)

\* C7: a bare HH:MM parses, keeps its time of day and takes the date the
\* clock's instant has in Brisbane; none of the four formats is tried.
C7_TimeOnly ==
    (AfterParse /\ IsBareTime(input)) =>
        /\ status # 3
        /\ now \in ClockReadings
        /\ time_of(ndt) = [hour |-> NumVal(SubSeq(input, 1, 2)),
                           minute |-> NumVal(SubSeq(input, 4, 5)), second |-> 0]
        /\ date_naive(ndt) = BrisbaneDateOf(now)
        /\ tried = 0

\* C7 witness: 23:59 typed when it is 20:15 UTC on 31 December 2025
C7_Witness ==
    /\ input = "23:59" /\ now = Dt(2025, 12, 31, 20, 15, 0)
    /\ ndt = Dt(2026, 1, 1, 23, 59, 0) /\ pc = "menu"

\* C8: an input in one of the four layouts whose day, month and year are no
\* calendar date is a parse error; a value that is returned has the day and
\* the month as written.
C8_InvalidDate ==
    AfterParse =>
        \A i \in 1..4 :
            LET r == parse_internal(NoParsed, input, formats[i])
            IN  r.ok =>
                  LET y == MappedYear(IF r.p.Year # << >> THEN r.p.Year[1]
                                      ELSE r.p.YearMod100[1])
                      valid == r.p.Day[1] <= DaysInMonth(y, r.p.Month[1])
                  IN  /\ ~valid => pc = "done" /\ status = 3 /\ ndt = NoDt
                      /\ status # 3 => /\ ndt.day = r.p.Day[1]
                                       /\ ndt.month = r.p.Month[1]

\* C8 witness: 29 February of a two-digit non-leap year was refused
C8_Witness == input = "21:00 29-02-25" /\ pc = "done" /\ status = 3 /\ tried = 4


\* a local->UTC run that printed its two lines
LocalRunDone == Ended /\ choice = "1" /\ status = 0

\* C2 as claimed: every parsed value, taken as Brisbane time, converts to UTC
\* and back to the value it was.
C2_RoundTripEveryValue ==
    /\ (Ended /\ choice = "1" /\ ndt # NoDt) => status = 0
    /\ pc = "back" => back.naive = ndt

\* C2 as amended: every parsed value that stands for exactly one UTC instant
\* converts to UTC and back to the value it was, with the offset it had; a
\* value that stands for none or for two is not converted at all.
C2_RoundTripSingle ==
    /\ pc = "back" => back.naive = ndt /\ back = bne
    /\ (Ended /\ choice = "1" /\ ndt # NoDt) =>
           (status = 0 <=> Cardinality(UtcInstants(ndt)) = 1)
    /\ (Ended /\ choice = "1" /\ status # 0) => utc = NoDt /\ back = NoLocal

\* C2 witness: 21:00 on 1 January 1990, daylight time, has made the round trip
C2_Witness ==
    /\ pc = "back" /\ ndt = Dt(1990, 1, 1, 21, 0, 0)
    /\ utc = Dt(1990, 1, 1, 10, 0, 0) /\ back.naive = ndt

\* the end of Queensland's last period of daylight time, Brisbane wall clock
LastDstEnd == Dt(1992, 3, 1, 3, 0, 0)

\* C5 as claimed: the printed UTC instant is the value minus 10 hours, and
\* the printed Brisbane value is the value unchanged.
C5_MinusTenHoursAlways ==
    LocalRunDone =>
        /\ utc = AddSeconds(ndt, 0 - 36000)
        /\ bne.naive = ndt

\* C5 as amended: the printed UTC instant is the value minus the Brisbane
\* offset in force at that wall-clock time, which is 10 hours for every
\* value from 03:00 on 1 March 1992 on (carried across day, month and year
\* boundaries) and 11 hours during Queensland's daylight time; the printed
\* Brisbane value is the value unchanged.
C5_MinusOffsetInForce ==
    LocalRunDone =>
        /\ bne.naive = ndt
        /\ utc = AddSeconds(ndt, 0 - TotalOffset(bne.offset))
        /\ out[5] = UtcLine(utc)
        /\ out[6] = "Brisbane: " \o Fmt4(ndt.year) \o "-" \o Fmt2(ndt.month) \o "-"
                      \o Fmt2(ndt.day) \o " " \o Fmt2(ndt.hour) \o ":"
                      \o Fmt2(ndt.minute) \o " " \o bne.offset.abbreviation
        /\ ~DtLess(ndt, LastDstEnd) =>
              /\ utc = AddSeconds(ndt, 0 - 36000)
              /\ bne.offset = AEST
        /\ input = "21:00 22-09-2025" =>
              /\ out[5] = "UTC: 2025-09-22T11:00:00+00:00"
              /\ out[6] = "Brisbane: 2025-09-22 21:00 AEST"
        /\ input = "00:30 01-01-2025" => out[5] = "UTC: 2024-12-31T14:30:00+00:00"
        /\ input = "00:30 01-03-2024" => out[5] = "UTC: 2024-02-29T14:30:00+00:00"
        /\ input = "21:00 01-01-1990" =>
              /\ out[5] = "UTC: 1990-01-01T10:00:00+00:00"
              /\ out[6] = "Brisbane: 1990-01-01 21:00 AEDT"

\* C5 witness: 00:30 on 1 January 2025 is 14:30 UTC on 31 December 2024
C5_Witness ==
    /\ pc = "done" /\ choice = "1" /\ input = "00:30 01-01-2025"
    /\ out[5] = "UTC: 2024-12-31T14:30:00+00:00"
    /\ out[6] = "Brisbane: 2025-01-01 00:30 AEST"

\* the orders in which the four formats can be tried
Perms == { f \in [1..4 -> 1..4] : \A i, j \in 1..4 : f[i] = f[j] => i = j }

Permuted(f) == [i \in 1..4 |-> formats[f[i]]]

\* where format k stands in the order f
Position(f, k) == CHOOSE i \in 1..4 : f[i] = k

\* what parse_input returns for the current input with the formats in order fs
ResultIn(fs) == LET r == try_formats(fs, input, 0) IN << r.tag, r.v >>

\* what the run's parse_input did return
ResultGot == IF status = 3 THEN << "Err", NoDt >> ELSE << "Ok", ndt >>

Matching == { i \in 1..4 : NaiveDateTime_parse_from_str(input, formats[i]) # << >> }

\* the parse step has just been taken, on the date+time path
JustTriedFormats ==
    /\ pc = "menu" \/ (pc = "done" /\ status = 3)
    /\ NaiveTime_parse_from_str(input) = << >>

\* the input matches the %y format k with the year written as 69
YearWritten69(k) ==
    /\ k \in Matching
    /\ parse_internal(NoParsed, input, formats[k]).p.YearMod100 = << 69 >>

\* C10 as claimed: at most one of the four formats matches an input, and
\* every order of the formats gives the same result.
C10_OrderIrrelevant ==
    JustTriedFormats =>
        /\ Cardinality(Matching) <= 1
        /\ \A f \in Perms : ResultIn(Permuted(f)) = ResultGot

\* C10 as amended: formats of different separators never both match, but an
\* input whose year has one or two digits matches both the %Y and the %y
\* format of its separator.  Every order gives the same result except for a
\* year written as 69: with %Y tried first, as in the code, it is 1969; an
\* order that tries %y first gives 2069.
C10_OrderMattersFor69 ==
    JustTriedFormats =>
        /\ Matching \in {{}, {1}, {3}, {1, 2}, {3, 4}}
        /\ \A f \in Perms :
              IF \E k \in {2, 4} : YearWritten69(k) /\ Position(f, k) < Position(f, k - 1)
              THEN /\ ResultGot = << "Ok", [ndt EXCEPT !.year = 1969] >>
                   /\ ResultIn(Permuted(f)) = << "Ok", [ndt EXCEPT !.year = 2069] >>
              ELSE ResultIn(Permuted(f)) = ResultGot

\* C10 witness: a year written as 69 was read as 1969 and matches two formats
C10_Witness ==
    /\ pc = "menu" /\ input = "21:00 01-01-69" /\ ndt.year = 1969
    /\ Matching = {1, 2}


=============================================================================
